---- MODULE Spec2Model ----
(***************************************************************************)
(* threadbus: two Bus instances joined by one MessageChannel.              *)
(* Endpoint "A" calls createChannel, endpoint "B" calls bind on the port   *)
(* it was handed.  chan[e] is the queue of messages posted to e's port,    *)
(* delivered one at a time, in order, to the "message" handler that        *)
(* #initListener installs.                                                 *)
(***************************************************************************)
EXTENDS Integers, Sequences, FiniteSets, TLC

\* ---------------------------------------------------------------- bounds
MaxExposed == 2     \* expose() calls over both Buses
MaxCalls == 2       \* accessor operations (get/set/call) over both Buses
MaxConfirm == 2     \* confirm() calls per Bus
MaxHandlers == 2    \* on()/once() calls over both Buses
MaxEmits == 2       \* emit() calls over both Buses
MaxInjected == 1    \* messages posted through Bus.port by the application itself

\* ---------------------------------------------------------------- values
Endpoints == {"A", "B"}

Peer(e) == IF e = "A" THEN "B" ELSE "A"

\* JavaScript values that occur: numbers, false, undefined, a function, and
\* a promise that will fulfil with the number n.
Num(n) == [t |-> "number", n |-> n]

False == [t |-> "boolean", n |-> 0]

Undefined == [t |-> "undefined", n |-> 0]

Fn == [t |-> "function", n |-> 0]

PromiseOf(n) == [t |-> "promise", n |-> n]

\* The object handed to expose(): two fields and one method, add(a,b) = a+b.
\* Field y holds a pending computation.
TheObj == [x |-> Num(5), y |-> PromiseOf(7), add |-> Fn]

ObjectKeys == <<"x", "y", "add">>

\* The argument tuples expose() is called with; keys is <<>> when the
\* keys parameter is left out and <<list>> when it is given.
ExposeArgs ==
    { [specifier |-> "o1", keys |-> << <<"x", "add">> >>, interactable |-> TRUE],
      [specifier |-> "o2", keys |-> <<>>, interactable |-> FALSE] }

Specifiers == {"o1", "o2"}

\* The keys the application reads and writes, and the ones it calls.
ValueKeys == {"x", "y"}

CallKeys == {"add"}

SetValues == {Num(10), False}

CallArgs == {<<2, 3>>}

\* The names of the user events and the payloads emit() is called with.
Names == {"n1", "n2"}

Payloads == {Num(1), Num(2)}

\* ---------------------------------------------------------------- state
VARIABLES
    port,        \* port[e]: TRUE once Bus e holds a port with its listener
    bounded,     \* Bus.bounded
    exposed,     \* Bus.exposed: sequence of Exposed entries
    listeners,   \* Bus.#listeners
    confirmDone, \* Bus.#confirm.done
    confirmCb,   \* Bus.#confirm.cb: index of the confirm() promise it resolves, 0 for the initial no-op
    confirms,    \* confirms[e][i]: TRUE once the i-th promise returned by confirm() is resolved
    chan,        \* chan[e]: messages posted to e's port and not yet handled
    calls,       \* the promises returned by Exposed.get/set/call, in issue order
    running,     \* running[e]: handler continuations suspended in an await
    invoked,     \* every invocation of an exposed function
    received,    \* received[e]: the expose:res messages e's handler has been given
    sent,        \* sent[e]: the catalogs e has posted (bus:expose, bus:exposeSuccess)
    merged,      \* merged[e]: the catalogs e has merged into its registry
    handlers,    \* handlers[e]: the on()/once() calls made on e, in order
    runs,        \* runs[e]: the invocations of the callbacks given to on()/once()
    emitted,     \* emitted[e]: the user events e has posted with emit()
    injected     \* number of messages the application posted through Bus.port itself

vars == <<port, bounded, exposed, listeners, confirmDone, confirmCb, confirms,
          chan, calls, running, invoked, received, sent, merged,
          handlers, runs, emitted, injected>>

\* The state of the user events.
user == <<handlers, runs, emitted>>

\* ---------------------------------------------------------------- messages
\* EventData { event, data }; the fields of data are flattened.
Msg(event) ==
    [event |-> event, catalog |-> <<>>, specifier |-> "", key |-> "",
     value |-> Undefined, args |-> <<>>, waiting |-> 0, res |-> Undefined]

Post(e, ms) == [chan EXCEPT ![e] = chan[e] \o ms]

\* ---------------------------------------------------------------- Exposed
\* The {specifier, keys, interactable} record of an entry.
ExposedData(x) ==
    [specifier |-> x.specifier, keys |-> x.keys, interactable |-> x.interactable]

Catalog(e) == [i \in 1..Len(exposed[e]) |-> ExposedData(exposed[e][i])]

\* new Exposed(bus, specifier, obj, keys, interactable)
PrimaryEntry(specifier, obj, keys, interactable) ==
    [specifier |-> specifier, obj |-> <<obj>>, keys |-> keys,
     interactable |-> interactable, secondary |-> FALSE]

\* new Exposed(bus, data): obj is undefined (the empty sequence)
MirrorEntry(d) ==
    [specifier |-> d.specifier, obj |-> <<>>, keys |-> d.keys,
     interactable |-> d.interactable, secondary |-> TRUE]

\* The three listeners the Exposed constructor registers through bus.on.
ExposedListeners(i) ==
    << [event |-> "expose:get", owner |-> i, waiting |-> 0, cb |-> 0, once |-> FALSE],
       [event |-> "expose:set", owner |-> i, waiting |-> 0, cb |-> 0, once |-> FALSE],
       [event |-> "expose:call", owner |-> i, waiting |-> 0, cb |-> 0, once |-> FALSE] >>

Init ==
    /\ port = [e \in Endpoints |-> FALSE]
    /\ bounded = [e \in Endpoints |-> FALSE]
    /\ exposed = [e \in Endpoints |-> <<>>]
    /\ listeners = [e \in Endpoints |-> <<>>]
    /\ confirmDone = [e \in Endpoints |-> FALSE]
    /\ confirmCb = [e \in Endpoints |-> 0]
    /\ confirms = [e \in Endpoints |-> <<>>]
    /\ chan = [e \in Endpoints |-> <<>>]
    /\ calls = <<>>
    /\ running = [e \in Endpoints |-> {}]
    /\ invoked = <<>>
    /\ received = [e \in Endpoints |-> <<>>]
    /\ sent = [e \in Endpoints |-> <<>>]
    /\ merged = [e \in Endpoints |-> <<>>]
    /\ handlers = [e \in Endpoints |-> <<>>]
    /\ runs = [e \in Endpoints |-> <<>>]
    /\ emitted = [e \in Endpoints |-> <<>>]
    /\ injected = 0

\* ---------------------------------------------------------------- channel set-up
\* Bus.createChannel on A: port1 becomes A's port and gets the listener.
CreateChannel ==
    /\ ~port["A"]
    /\ port' = [port EXCEPT !["A"] = TRUE]
    /\ UNCHANGED <<injected, user, bounded, exposed, listeners, confirmDone, confirmCb, confirms,
                   chan, calls, running, invoked, received, sent, merged>>

\* Bus.bind on B with the port createChannel returned.
Bind ==
    /\ port["A"]
    /\ ~port["B"]
    /\ port' = [port EXCEPT !["B"] = TRUE]
    /\ chan' = Post("A", <<Msg("bus:bind")>>)
    /\ UNCHANGED <<injected, user, bounded, exposed, listeners, confirmDone, confirmCb, confirms,
                   calls, running, invoked, received, sent, merged>>

\* ---------------------------------------------------------------- expose
\* typeof obj[k] === "function" ? "function" : "value"
KeyType(obj, k) == IF obj[k].t = "function" THEN "function" ELSE "value"

\* The map in expose(): a key the object does not own maps to undefined.
KeyDescs(obj, ks) ==
    [i \in 1..Len(ks) |->
        IF ks[i] \in DOMAIN obj
        THEN [k |-> ks[i], t |-> KeyType(obj, ks[i])]
        ELSE [k |-> "", t |-> "undefined"]]

\* What expose() posts once it has pushed the entry.
ExposePosts(e, a, keys) ==
    IF bounded[e]
    THEN << [Msg("expose:register") EXCEPT
                !.specifier = a.specifier,
                !.catalog = << [specifier |-> a.specifier, keys |-> keys,
                                interactable |-> a.interactable] >>] >>
    ELSE <<>>

\* Bus.expose(specifier, obj, keys, interactable) on e.
Expose(e, a) ==
    LET keys == KeyDescs(TheObj, IF a.keys = <<>> THEN ObjectKeys ELSE a.keys[1])
        n == Len(exposed[e])
    IN  /\ exposed' = [exposed EXCEPT ![e] =
              Append(@, PrimaryEntry(a.specifier, TheObj, keys, a.interactable))]
        /\ listeners' = [listeners EXCEPT ![e] = @ \o ExposedListeners(n + 1)]
        /\ chan' = Post(Peer(e), ExposePosts(e, a, keys))
        /\ UNCHANGED <<injected, user, port, bounded, confirmDone, confirmCb, confirms,
                       calls, running, invoked, received, sent, merged>>

\* ---------------------------------------------------------------- confirm
\* Bus.confirm() on e: a new promise; d() runs at once when the exchange is
\* done, and in every case replaces #confirm.cb.
Confirm(e) ==
    LET p == Len(confirms[e]) + 1
    IN  /\ confirms' = [confirms EXCEPT ![e] = Append(@, confirmDone[e])]
        /\ bounded' = [bounded EXCEPT ![e] = IF confirmDone[e] THEN TRUE ELSE @]
        /\ confirmCb' = [confirmCb EXCEPT ![e] = p]
        /\ UNCHANGED <<injected, user, port, exposed, listeners, confirmDone, chan,
                       calls, running, invoked, received, sent, merged>>

\* ---------------------------------------------------------------- handshake
Front(e) == chan[e][1]

Receives(e, event) == port[e] /\ chan[e] # <<>> /\ Front(e).event = event

\* chan after e has taken its first message and posted ms to its peer.
Taken(e, ms) ==
    [chan EXCEPT ![e] = Tail(chan[e]), ![Peer(e)] = chan[Peer(e)] \o ms]

CatalogMsg(e, event) == [Msg(event) EXCEPT !.catalog = Catalog(e)]

\* Mutant of MergedEntries: an item whose specifier is already held is skipped.
MergedEntries_SkipHeld(e, data) ==
    LET New(d) == \A i \in 1..Len(exposed[e]) : exposed[e][i].specifier # d.specifier
    IN  exposed[e] \o [j \in 1..Len(SelectSeq(data, New)) |->
                          MirrorEntry(SelectSeq(data, New)[j])]

\* The for loop of the message handler: one Mirror entry per catalog item,
\* each registering its three listeners.
MergedEntries(e, data) ==
    exposed[e] \o [j \in 1..Len(data) |-> MirrorEntry(data[j])]

MergedListeners(e, data) ==
    listeners[e] \o
        [k \in 1..(3 * Len(data)) |->
            ExposedListeners(Len(exposed[e]) + ((k - 1) \div 3) + 1)[((k - 1) % 3) + 1]]

\* Mutant of ConfirmDone: the callback is not called.
ConfirmDone_NoCb(e) ==
    /\ confirmDone' = [confirmDone EXCEPT ![e] = TRUE]
    /\ UNCHANGED <<bounded, confirms>>

\* this.#confirm.done = true; this.#confirm.cb()
ConfirmDone(e) ==
    /\ confirmDone' = [confirmDone EXCEPT ![e] = TRUE]
    /\ IF confirmCb[e] = 0
       THEN UNCHANGED <<bounded, confirms>>
       ELSE /\ bounded' = [bounded EXCEPT ![e] = TRUE]
            /\ confirms' = [confirms EXCEPT ![e][confirmCb[e]] = TRUE]

Merge(e, data) ==
    /\ exposed' = [exposed EXCEPT ![e] = MergedEntries(e, data)]
    /\ listeners' = [listeners EXCEPT ![e] = MergedListeners(e, data)]
    /\ merged' = [merged EXCEPT ![e] = Append(@, data)]
    /\ ConfirmDone(e)

\* Mutant of OnBind: bus:expose is sent right after bus:bindSuccess.
OnBind_AlsoExpose(e) ==
    /\ Receives(e, "bus:bind")
    /\ chan' = Taken(e, <<Msg("bus:bindSuccess"), CatalogMsg(e, "bus:expose")>>)
    /\ sent' = [sent EXCEPT ![e] = Append(@, Catalog(e))]
    /\ bounded' = [bounded EXCEPT ![e] = TRUE]
    /\ UNCHANGED <<injected, user, port, exposed, listeners, confirmDone, confirmCb, confirms,
                   calls, running, invoked, received, merged>>

\* "bus:bind"
OnBind(e) ==
    /\ Receives(e, "bus:bind")
    /\ chan' = Taken(e, <<Msg("bus:bindSuccess")>>)
    /\ bounded' = [bounded EXCEPT ![e] = TRUE]
    /\ UNCHANGED <<injected, user, port, exposed, listeners, confirmDone, confirmCb, confirms,
                   calls, running, invoked, received, sent, merged>>

\* "bus:bindSuccess"
OnBindSuccess(e) ==
    /\ Receives(e, "bus:bindSuccess")
    /\ chan' = Taken(e, <<CatalogMsg(e, "bus:expose")>>)
    /\ sent' = [sent EXCEPT ![e] = Append(@, Catalog(e))]
    /\ bounded' = [bounded EXCEPT ![e] = TRUE]
    /\ UNCHANGED <<injected, user, port, exposed, listeners, confirmDone, confirmCb, confirms,
                   calls, running, invoked, received, merged>>

\* "bus:expose"
OnExpose(e) ==
    /\ Receives(e, "bus:expose")
    /\ chan' = Taken(e, <<CatalogMsg(e, "bus:exposeSuccess")>>)
    /\ sent' = [sent EXCEPT ![e] = Append(@, Catalog(e))]
    /\ Merge(e, Front(e).catalog)
    /\ UNCHANGED <<injected, user, port, confirmCb, calls, running, invoked, received>>

\* Mutant of OnExposeSuccess: the catalog is sent back once more.
OnExposeSuccess_Reply(e) ==
    /\ Receives(e, "bus:exposeSuccess")
    /\ chan' = Taken(e, <<CatalogMsg(e, "bus:exposeSuccess")>>)
    /\ sent' = [sent EXCEPT ![e] = IF Len(@) < 2 THEN Append(@, Catalog(e)) ELSE @]
    /\ Merge(e, Front(e).catalog)
    /\ UNCHANGED <<injected, user, port, confirmCb, calls, running, invoked, received>>

\* "bus:exposeSuccess"
OnExposeSuccess(e) ==
    /\ Receives(e, "bus:exposeSuccess")
    /\ chan' = Taken(e, <<>>)
    /\ Merge(e, Front(e).catalog)
    /\ UNCHANGED <<injected, user, port, confirmCb, calls, running, invoked, received, sent>>

\* ---------------------------------------------------------------- lookups
\* Array.prototype.find, over the sequence hits of the predicate's values:
\* the index of the first element that satisfies it, 0 when there is none.
RECURSIVE FirstHit(_, _)

FirstHit(hits, i) ==
    IF i > Len(hits) THEN 0
    ELSE IF hits[i] THEN i
    ELSE FirstHit(hits, i + 1)

Find(hits) == FirstHit(hits, 1)

\* Mutant of getExposed: the entry registered last is found.
getExposed_Last(e, specifier) ==
    LET m == {i \in 1..Len(exposed[e]) : exposed[e][i].specifier = specifier}
    IN  IF m = {} THEN 0 ELSE CHOOSE i \in m : \A j \in m : j <= i

\* this.exposed.find((e) => e.specifier === specifier) in getExposed
getExposed(e, specifier) ==
    Find([i \in 1..Len(exposed[e]) |-> exposed[e][i].specifier = specifier])

\* keys.find((e) => e.k === key)
FindKey(x, key) ==
    Find([i \in 1..Len(x.keys) |-> x.keys[i].k = key])

\* this.#listeners.find((e) => e.event === data.event) in the message handler
FindListener(e, event) ==
    Find([i \in 1..Len(listeners[e]) |-> listeners[e][i].event = event])

\* ---------------------------------------------------------------- Exposed.get / set / call
\* Mutant of SetRefused: the interactable test is missing.
SetRefused_Never(x, op) == FALSE

\* The interactable test of Exposed.set.
SetRefused(x, op) == op = "set" /\ x.interactable = FALSE

\* Mutant of Forwards: the key is not looked up in the key catalog.
Forwards_AnyKey(x, op, key) ==
    /\ ~SetRefused(x, op)
    /\ (x.obj = <<>> \/ x.secondary)

\* The branch of get/set/call that goes through bus.emit.
Forwards(x, op, key) ==
    /\ ~SetRefused(x, op)
    /\ FindKey(x, key) # 0
    /\ (x.obj = <<>> \/ x.secondary)

\* The branch that touches this.obj.
Touches(x, op, key) ==
    /\ ~SetRefused(x, op)
    /\ FindKey(x, key) # 0
    /\ ~(x.obj = <<>> \/ x.secondary)

\* What get/set/call return when they do not go through bus.emit.
LocalResult(x, op, key, value, args) ==
    IF ~Touches(x, op, key) THEN Undefined
    ELSE IF op = "get" THEN x.obj[1][key]
    ELSE IF op = "set" THEN value
    ELSE Num(args[1] + args[2])

\* this.obj after the operation.
LocalObj(x, op, key, value) ==
    IF Touches(x, op, key) /\ op = "set"
    THEN <<[x.obj[1] EXCEPT ![key] = value]>>
    ELSE x.obj

\* A promise returned to the caller of get/set/call (token 0: nothing was
\* emitted; fwd: the token of the request a handler is serving, 0 for the
\* application; trap: the Proxy trap returned result without calling the
\* entry; res: what the promise of bus.emit was resolved with).
Call(e, i, op, key, value, args, token, fwd, state, result) ==
    [by |-> e, entry |-> i, op |-> op, key |-> key, value |-> value,
     args |-> args, token |-> token, fwd |-> fwd, state |-> state,
     result |-> result, trap |-> FALSE, res |-> Undefined]

\* Math.random().toString(36).slice(2): a token no earlier request carries.
NewToken == Len(calls) + 1

\* The message bus.emit posts for entry i of e.
Request(e, i, op, key, value, args, id) ==
    [Msg("expose:" \o op) EXCEPT
        !.specifier = exposed[e][i].specifier, !.key = key,
        !.value = value, !.args = args, !.waiting = id]

\* The listener bus.emit puts at the front of #listeners.
Unshifted(e, id) ==
    <<[event |-> "expose:res", owner |-> 0, waiting |-> id, cb |-> 0, once |-> FALSE]>>
        \o listeners[e]

\* An invocation of this.obj[key](...args).
Invocation(e, i, key, args, token) ==
    [at |-> e, entry |-> i, key |-> key, args |-> args, for |-> token]

Invocations(e, i, op, key, args, token) ==
    IF op = "call" /\ Touches(exposed[e][i], op, key)
    THEN Append(invoked, Invocation(e, i, key, args, token))
    ELSE invoked

\* The value a handler's `await cb(data)` yields, and whether it yields it
\* only after the handler has returned to the event loop.
Awaited(r) == IF r.t = "promise" THEN Num(r.n) ELSE r

Deferred(x, op, key, r, async) ==
    \/ r.t = "promise"
    \/ (op = "call" /\ Touches(x, op, key) /\ async)

\* bus.emit(op, ...) of entry i: post the request, then register the
\* one-shot listener; the promise it returns is pending.
Emit(e, i, op, key, value, args, fwd, taken) ==
    /\ calls' = Append(calls,
          Call(e, i, op, key, value, args, NewToken, fwd, "pending", Undefined))
    /\ chan' = [taken EXCEPT ![Peer(e)] =
          @ \o <<Request(e, i, op, key, value, args, NewToken)>>]
    /\ listeners' = [listeners EXCEPT ![e] = Unshifted(e, NewToken)]

\* f.get / f.set / f.call invoked by the application on entry i of e.
ExposedCall(e, i, op, key, value, args, async) ==
    LET x == exposed[e][i]
        r == LocalResult(x, op, key, value, args)
        later == op = "call" /\ Touches(x, op, key) /\ async
    IN  /\ IF Forwards(x, op, key)
           THEN /\ Emit(e, i, op, key, value, args, 0, chan)
                /\ UNCHANGED <<exposed, invoked, running>>
           ELSE /\ calls' = Append(calls,
                     Call(e, i, op, key, value, args, 0, 0,
                          IF later THEN "pending" ELSE "resolved",
                          IF later THEN Undefined ELSE r))
                /\ exposed' = [exposed EXCEPT ![e][i].obj = LocalObj(x, op, key, value)]
                /\ invoked' = Invocations(e, i, op, key, args, 0)
                /\ running' =
                     IF later
                     THEN [running EXCEPT ![e] =
                             @ \cup {[call |-> NewToken, waiting |-> 0, res |-> r]}]
                     ELSE running
                /\ UNCHANGED <<chan, listeners>>
        /\ UNCHANGED <<injected, user, port, bounded, confirmDone, confirmCb, confirms,
                       received, sent, merged>>

\* ---------------------------------------------------------------- the Proxy of getExposed
\* The application evaluates getExposed(specifier) and uses the Proxy it
\* returns; the Proxy closes over the entry found.
KeyKind(x, key) ==
    IF FindKey(x, key) = 0 THEN "none" ELSE x.keys[FindKey(x, key)].t

\* A trap that returns without calling the entry.
Returned(e, i, op, key, value, result) ==
    /\ calls' = Append(calls,
          [Call(e, i, op, key, value, <<>>, 0, 0, "resolved", result) EXCEPT !.trap = TRUE])
    /\ UNCHANGED <<injected, user, port, bounded, exposed, listeners, confirmDone, confirmCb,
                   confirms, chan, running, invoked, received, sent, merged>>

\* get trap, key of kind value or unknown: getExposed(specifier)[key]
ProxyGet(e, specifier, key) ==
    LET i == getExposed(e, specifier)
    IN  /\ i # 0
        /\ KeyKind(exposed[e][i], key) # "function"
        /\ IF KeyKind(exposed[e][i], key) = "none"
           THEN Returned(e, i, "get", key, Undefined, Undefined)
           ELSE ExposedCall(e, i, "get", key, Undefined, <<>>, FALSE)

\* get trap, key of kind function, and a call of the wrapper it returns:
\* getExposed(specifier)[key](...args)
ProxyCall(e, specifier, key, args, async) ==
    LET i == getExposed(e, specifier)
    IN  /\ i # 0
        /\ KeyKind(exposed[e][i], key) = "function"
        /\ ExposedCall(e, i, "call", key, Undefined, args, async)

\* set trap: getExposed(specifier)[key] = value
ProxySet(e, specifier, key, value) ==
    LET i == getExposed(e, specifier)
    IN  /\ i # 0
        /\ IF KeyKind(exposed[e][i], key) \in {"none", "function"}
           THEN Returned(e, i, "set", key, value, False)
           ELSE ExposedCall(e, i, "set", key, value, <<>>, FALSE)

\* ---------------------------------------------------------------- requests and responses
Requests == {"expose:get", "expose:set", "expose:call"}

OpOf(event) ==
    IF event = "expose:get" THEN "get"
    ELSE IF event = "expose:set" THEN "set" ELSE "call"

\* Mutant of Response: the token of the request is not echoed.
Response_NoToken(res, waiting) == [Msg("expose:res") EXCEPT !.res = res]

\* this.port.postMessage({ event: "expose:res", data: { res, waiting } })
Response(res, waiting) ==
    [Msg("expose:res") EXCEPT !.res = res, !.waiting = waiting]

\* Mutant of OnRequest: the listener does not compare specifiers.
OnRequest_AnySpecifier(e, async) ==
    /\ port[e] /\ chan[e] # <<>>
    /\ Front(e).event \in Requests
    /\ FindListener(e, Front(e).event) # 0
    /\ LET m == Front(e)
           i == listeners[e][FindListener(e, m.event)].owner
           x == exposed[e][i]
           op == OpOf(m.event)
           r == LocalResult(x, op, m.key, m.value, m.args)
       IN  IF Forwards(x, op, m.key)
           THEN /\ Emit(e, i, op, m.key, m.value, m.args, m.waiting, Taken(e, <<>>))
                /\ UNCHANGED <<exposed, running, invoked>>
           ELSE /\ exposed' = [exposed EXCEPT ![e][i].obj = LocalObj(x, op, m.key, m.value)]
                /\ invoked' = Invocations(e, i, op, m.key, m.args, m.waiting)
                /\ IF Deferred(x, op, m.key, r, async)
                   THEN /\ running' = [running EXCEPT ![e] =
                              @ \cup {[call |-> 0, waiting |-> m.waiting, res |-> Awaited(r)]}]
                        /\ chan' = Taken(e, <<>>)
                   ELSE /\ chan' = Taken(e, <<Response(r, m.waiting)>>)
                        /\ UNCHANGED running
                /\ UNCHANGED <<listeners, calls>>
    /\ UNCHANGED <<injected, user, port, bounded, confirmDone, confirmCb, confirms,
                   received, sent, merged>>

\* The listener of #createExposedBus.on, reached through the else branch of
\* the message handler: only the first listener of the event is called.
OnRequest(e, async) ==
    /\ port[e] /\ chan[e] # <<>>
    /\ Front(e).event \in Requests
    /\ FindListener(e, Front(e).event) # 0
    /\ LET m == Front(e)
           i == listeners[e][FindListener(e, m.event)].owner
           x == exposed[e][i]
           op == OpOf(m.event)
           r == LocalResult(x, op, m.key, m.value, m.args)
       IN  IF x.specifier # m.specifier
           THEN /\ chan' = Taken(e, <<>>)
                /\ UNCHANGED <<exposed, listeners, calls, running, invoked>>
           ELSE IF Forwards(x, op, m.key)
           THEN /\ Emit(e, i, op, m.key, m.value, m.args, m.waiting, Taken(e, <<>>))
                /\ UNCHANGED <<exposed, running, invoked>>
           ELSE /\ exposed' = [exposed EXCEPT ![e][i].obj = LocalObj(x, op, m.key, m.value)]
                /\ invoked' = Invocations(e, i, op, m.key, m.args, m.waiting)
                /\ IF Deferred(x, op, m.key, r, async)
                   THEN /\ running' = [running EXCEPT ![e] =
                              @ \cup {[call |-> 0, waiting |-> m.waiting, res |-> Awaited(r)]}]
                        /\ chan' = Taken(e, <<>>)
                   ELSE /\ chan' = Taken(e, <<Response(r, m.waiting)>>)
                        /\ UNCHANGED running
                /\ UNCHANGED <<listeners, calls>>
    /\ UNCHANGED <<injected, user, port, bounded, confirmDone, confirmCb, confirms,
                   received, sent, merged>>

\* What the promise of get/set/call settles to when bus.emit's promise
\* settles to res.
Settled(c, res) ==
    IF c.op = "set" THEN (IF res = False THEN Undefined ELSE c.value) ELSE res

\* Mutant of OnResponse: the listener resolves without comparing tokens.
OnResponse_AnyToken(e) ==
    /\ Receives(e, "expose:res")
    /\ FindListener(e, "expose:res") # 0
    /\ LET m == Front(e)
           t == listeners[e][FindListener(e, "expose:res")].waiting
       IN  IF calls[t].state # "pending"
           THEN /\ chan' = Taken(e, <<>>)
                /\ UNCHANGED calls
           ELSE /\ calls' = [calls EXCEPT ![t].state = "resolved",
                                          ![t].res = m.res,
                                          ![t].result = Settled(calls[t], m.res)]
                /\ chan' = Taken(e, <<>>)
    /\ received' = [received EXCEPT ![e] = Append(@, Front(e))]
    /\ UNCHANGED <<injected, user, port, bounded, exposed, listeners, confirmDone,
                   confirmCb, confirms, running, invoked, sent, merged>>

\* The listener of #createExposedBus.emit, reached the same way.
OnResponse(e) ==
    /\ Receives(e, "expose:res")
    /\ FindListener(e, "expose:res") # 0
    /\ LET m == Front(e)
           t == listeners[e][FindListener(e, "expose:res")].waiting
       IN  IF m.waiting # t \/ calls[t].state # "pending"
           THEN /\ chan' = Taken(e, <<>>)
                /\ UNCHANGED calls
           ELSE /\ calls' = [calls EXCEPT ![t].state = "resolved",
                                          ![t].res = m.res,
                                          ![t].result = Settled(calls[t], m.res)]
                /\ chan' = Taken(e,
                      IF calls[t].fwd = 0 THEN <<>>
                      ELSE <<Response(Settled(calls[t], m.res), calls[t].fwd)>>)
    /\ received' = [received EXCEPT ![e] = Append(@, Front(e))]
    /\ UNCHANGED <<injected, user, port, bounded, exposed, listeners, confirmDone, confirmCb,
                   confirms, running, invoked, sent, merged>>

\* The else branch when no listener has the event: nothing is called.
OnUnhandled(e) ==
    /\ port[e] /\ chan[e] # <<>>
    /\ Front(e).event \notin {"bus:bind", "bus:bindSuccess", "bus:expose", "bus:exposeSuccess"}
    /\ FindListener(e, Front(e).event) = 0
    /\ chan' = Taken(e, <<>>)
    /\ received' = [received EXCEPT ![e] =
          IF Front(e).event = "expose:res" THEN Append(@, Front(e)) ELSE @]
    /\ UNCHANGED <<injected, user, port, bounded, exposed, listeners, confirmDone, confirmCb,
                   confirms, calls, running, invoked, sent, merged>>

\* An awaited promise or asynchronous function of e's object settles: the
\* suspended continuation posts its response or settles the local call.
Complete(e, r) ==
    /\ r \in running[e]
    /\ running' = [running EXCEPT ![e] = @ \ {r}]
    /\ chan' = IF r.waiting = 0 THEN chan
               ELSE Post(Peer(e), <<Response(r.res, r.waiting)>>)
    /\ calls' = IF r.call = 0 THEN calls
                ELSE [calls EXCEPT ![r.call].state = "resolved",
                                   ![r.call].result = r.res]
    /\ UNCHANGED <<injected, user, port, bounded, exposed, listeners, confirmDone, confirmCb,
                   confirms, invoked, received, sent, merged>>

\* ---------------------------------------------------------------- specification
Exposures(e) == Cardinality({i \in 1..Len(exposed[e]) : ~exposed[e][i].secondary})

Next ==
    \/ CreateChannel
    \/ Bind
    \/ \E e \in Endpoints, a \in ExposeArgs : Exposures("A") + Exposures("B") < MaxExposed /\ Expose(e, a)
    \/ \E e \in Endpoints : OnBind(e)
    \/ \E e \in Endpoints : OnBindSuccess(e)
    \/ \E e \in Endpoints : OnExpose(e)
    \/ \E e \in Endpoints : OnExposeSuccess(e)
    \/ \E e \in Endpoints, s \in Specifiers, k \in ValueKeys :
          Len(calls) < MaxCalls /\ ProxyGet(e, s, k)
    \/ \E e \in Endpoints, s \in Specifiers, k \in ValueKeys, v \in SetValues :
          Len(calls) < MaxCalls /\ ProxySet(e, s, k, v)
    \/ \E e \in Endpoints, s \in Specifiers, k \in CallKeys, a \in CallArgs, async \in BOOLEAN :
          Len(calls) < MaxCalls /\ ProxyCall(e, s, k, a, async)
    \/ \E e \in Endpoints, async \in BOOLEAN : OnRequest(e, async)
    \/ \E e \in Endpoints : OnResponse(e)
    \/ \E e \in Endpoints : OnUnhandled(e)
    \/ \E e \in Endpoints : \E r \in running[e] : Complete(e, r)

\* Channel set-up, expose, the handshake and the accessor operations.
Spec == Init /\ [][Next]_vars

\* Channel set-up, expose, confirm and the handshake.  The port delivers
\* every message posted to it and the event loop runs the handler, so each
\* Bus keeps handling the messages queued for it.
Handle(e) ==
    \/ OnBind(e)
    \/ OnBindSuccess(e)
    \/ OnExpose(e)
    \/ OnExposeSuccess(e)
    \/ OnUnhandled(e)

NextHandshake ==
    \/ CreateChannel
    \/ Bind
    \/ \E e \in Endpoints, a \in ExposeArgs :
          Exposures("A") + Exposures("B") < MaxExposed /\ Expose(e, a)
    \/ \E e \in Endpoints : Len(confirms[e]) < MaxConfirm /\ Confirm(e)
    \/ \E e \in Endpoints : Handle(e)

Handshake ==
    /\ Init
    /\ [][NextHandshake]_vars
    /\ \A e \in Endpoints : WF_vars(Handle(e))

\* ---------------------------------------------------------------- messages posted through Bus.port
\* Bus.port is a public field: the application can post a message of its
\* own on it.  The ones considered are requests for a specifier no Bus
\* exposes and a response with a token no request carries; their tokens
\* (-1, -2) are not issued by bus.emit.
ForeignMsgs ==
    { [Msg("expose:get") EXCEPT !.specifier = "o3", !.key = "x", !.waiting = -1],
      [Msg("expose:set") EXCEPT !.specifier = "o3", !.key = "x",
                                !.value = Num(10), !.waiting = -1],
      [Msg("expose:call") EXCEPT !.specifier = "o3", !.key = "add",
                                 !.args = <<2, 3>>, !.waiting = -1],
      [Msg("expose:res") EXCEPT !.res = Num(1), !.waiting = -2] }

\* The application of e's peer calls port.postMessage(m).
Inject(e, m) ==
    /\ port[Peer(e)]
    /\ chan' = Post(e, <<m>>)
    /\ injected' = injected + 1
    /\ UNCHANGED <<user, port, bounded, exposed, listeners, confirmDone, confirmCb,
                   confirms, calls, running, invoked, received, sent, merged>>

NextForeign ==
    \/ Next
    \/ \E e \in Endpoints, m \in ForeignMsgs : injected < MaxInjected /\ Inject(e, m)

\* Spec, with messages of the application's own on the channel.
Foreign == Init /\ [][NextForeign]_vars

\* ---------------------------------------------------------------- entries used directly
\* Bus.exposed is a public field: the application calls get, set and call
\* on an entry itself, also with a key the entry does not list.  A key is
\* used the way its kind allows.
UnknownKeys == {"z"}

Usable(e, i, key, kind) ==
    /\ i \in 1..Len(exposed[e])
    /\ KeyKind(exposed[e][i], key) \in {kind, "none"}

\* bus.exposed[i].get(key)
DirectGet(e, i, key) ==
    /\ Usable(e, i, key, "value")
    /\ ExposedCall(e, i, "get", key, Undefined, <<>>, FALSE)

\* bus.exposed[i].set(key, value)
DirectSet(e, i, key, value) ==
    /\ Usable(e, i, key, "value")
    /\ ExposedCall(e, i, "set", key, value, <<>>, FALSE)

\* bus.exposed[i].call(key, ...args)
DirectCall(e, i, key, args, async) ==
    /\ Usable(e, i, key, "function")
    /\ ExposedCall(e, i, "call", key, Undefined, args, async)

NextDirect ==
    \/ CreateChannel
    \/ Bind
    \/ \E e \in Endpoints, a \in ExposeArgs :
          Exposures("A") + Exposures("B") < MaxExposed /\ Expose(e, a)
    \/ \E e \in Endpoints : OnBind(e)
    \/ \E e \in Endpoints : OnBindSuccess(e)
    \/ \E e \in Endpoints : OnExpose(e)
    \/ \E e \in Endpoints : OnExposeSuccess(e)
    \/ \E e \in Endpoints, i \in 1..(2 * MaxExposed), k \in ValueKeys \cup UnknownKeys :
          Len(calls) < MaxCalls /\ DirectGet(e, i, k)
    \/ \E e \in Endpoints, i \in 1..(2 * MaxExposed), k \in ValueKeys \cup UnknownKeys,
          v \in SetValues :
          Len(calls) < MaxCalls /\ DirectSet(e, i, k, v)
    \/ \E e \in Endpoints, i \in 1..(2 * MaxExposed), k \in CallKeys \cup UnknownKeys,
          a \in CallArgs, async \in BOOLEAN :
          Len(calls) < MaxCalls /\ DirectCall(e, i, k, a, async)
    \/ \E e \in Endpoints, s \in Specifiers, k \in UnknownKeys :
          Len(calls) < MaxCalls /\ ProxyGet(e, s, k)
    \/ \E e \in Endpoints, s \in Specifiers, k \in UnknownKeys, v \in SetValues :
          Len(calls) < MaxCalls /\ ProxySet(e, s, k, v)
    \/ \E e \in Endpoints, async \in BOOLEAN : OnRequest(e, async)
    \/ \E e \in Endpoints : OnResponse(e)
    \/ \E e \in Endpoints : OnUnhandled(e)
    \/ \E e \in Endpoints : \E r \in running[e] : Complete(e, r)

\* Spec, with the entries used directly instead of through the Proxy.
Direct == Init /\ [][NextDirect]_vars

\* ---------------------------------------------------------------- user events
UserEvent(name) == "user:" \o name

UserEvents == {UserEvent(name) : name \in Names}

\* The listener on() and once() push; cb numbers the callback it wraps,
\* once tells whether its callback removes it after calling cb.
UserListener(e, name, once) ==
    [event |-> UserEvent(name), owner |-> 0, waiting |-> 0,
     cb |-> Len(handlers[e]) + 1, once |-> once]

Registered(e, name, once) ==
    /\ listeners' = [listeners EXCEPT ![e] = Append(@, UserListener(e, name, once))]
    /\ handlers' = [handlers EXCEPT ![e] = Append(@, [name |-> name, once |-> once])]
    /\ UNCHANGED <<injected, runs, emitted, port, bounded, exposed, confirmDone,
                   confirmCb, confirms, chan, calls, running, invoked, received,
                   sent, merged>>

\* Bus.on(event, cb)
On(e, name) == Registered(e, name, FALSE)

\* Bus.once(event, cb)
Once(e, name) == Registered(e, name, TRUE)

\* Bus.emit(event, data): nothing happens without a port.
EmitUser(e, name, data) ==
    /\ chan' = IF port[e]
               THEN Post(Peer(e), <<[Msg(UserEvent(name)) EXCEPT !.value = data]>>)
               ELSE chan
    /\ emitted' = IF port[e]
                  THEN [emitted EXCEPT ![e] = Append(@, [name |-> name, data |-> data])]
                  ELSE emitted
    /\ UNCHANGED <<injected, handlers, runs, port, bounded, exposed, listeners,
                   confirmDone, confirmCb, confirms, calls, running, invoked,
                   received, sent, merged>>

\* this.#listeners.indexOf(l): 0 stands for -1.
IndexOf(e, l) == Find([j \in 1..Len(listeners[e]) |-> listeners[e][j] = l])

\* Mutant of Splice: nothing is removed.
Splice_Nothing(s, i) == s

\* s.splice(i, 1); with i = -1 it removes the last element.
Splice(s, i) ==
    IF i = 0 THEN SubSeq(s, 1, Len(s) - 1)
    ELSE SubSeq(s, 1, i - 1) \o SubSeq(s, i + 1, Len(s))

\* The else branch of the message handler for a user event: the first
\* listener of the event is called; a listener of once() calls cb and then
\* removes itself.
OnUser(e) ==
    /\ port[e] /\ chan[e] # <<>>
    /\ Front(e).event \in UserEvents
    /\ FindListener(e, Front(e).event) # 0
    /\ LET l == listeners[e][FindListener(e, Front(e).event)]
       IN  /\ runs' = [runs EXCEPT ![e] = Append(@, [cb |-> l.cb, data |-> Front(e).value])]
           /\ listeners' = [listeners EXCEPT ![e] =
                 IF l.once THEN Splice(@, IndexOf(e, l)) ELSE @]
    /\ chan' = Taken(e, <<>>)
    /\ UNCHANGED <<injected, handlers, emitted, port, bounded, exposed, confirmDone,
                   confirmCb, confirms, calls, running, invoked, received, sent,
                   merged>>

NextEvents ==
    \/ CreateChannel
    \/ Bind
    \/ \E e \in Endpoints : OnBind(e)
    \/ \E e \in Endpoints : OnBindSuccess(e)
    \/ \E e \in Endpoints : OnExpose(e)
    \/ \E e \in Endpoints : OnExposeSuccess(e)
    \/ \E e \in Endpoints, name \in Names : Len(handlers["A"]) + Len(handlers["B"]) < MaxHandlers /\ On(e, name)
    \/ \E e \in Endpoints, name \in Names : Len(handlers["A"]) + Len(handlers["B"]) < MaxHandlers /\ Once(e, name)
    \/ \E e \in Endpoints, name \in Names, data \in Payloads :
          Len(emitted["A"]) + Len(emitted["B"]) < MaxEmits /\ EmitUser(e, name, data)
    \/ \E e \in Endpoints : OnUser(e)
    \/ \E e \in Endpoints : OnUnhandled(e)

\* Channel set-up, the handshake and the user events.
Events == Init /\ [][NextEvents]_vars

\* ---------------------------------------------------------------- vocabulary of the properties
Tokens == {t \in 1..Len(calls) : calls[t].token = t}

\* The request with token t is still queued at the peer of its issuer.
Queued(t) ==
    \E j \in 1..Len(chan[Peer(calls[t].by)]) :
        /\ chan[Peer(calls[t].by)][j].event \in Requests
        /\ chan[Peer(calls[t].by)][j].waiting = t

\* The peer's handler has been given the request with token t.
Handled(t) == t \in Tokens /\ ~Queued(t)

\* An expose:res with token t is being prepared, is queued, or was delivered.
Delivered(t) ==
    \E j \in 1..Len(received[calls[t].by]) : received[calls[t].by][j].waiting = t

Answered(t) ==
    \/ \E r \in running[Peer(calls[t].by)] : r.waiting = t
    \/ \E j \in 1..Len(chan[calls[t].by]) :
          /\ chan[calls[t].by][j].event = "expose:res"
          /\ chan[calls[t].by][j].waiting = t
    \/ Delivered(t)

\* The entry a call was made on, and the entry of the peer that owns the
\* object behind it.
EntryOf(t) == exposed[calls[t].by][calls[t].entry]

OwnerIndex(t) == getExposed(Peer(calls[t].by), EntryOf(t).specifier)

OwnerHolds(t) ==
    /\ OwnerIndex(t) # 0
    /\ ~exposed[Peer(calls[t].by)][OwnerIndex(t)].secondary

OwnerValue(t) ==
    Awaited(exposed[Peer(calls[t].by)][OwnerIndex(t)].obj[1][calls[t].key])

Resolved(t) == calls[t].state = "resolved"

BothMerged == \A e \in Endpoints : merged[e] # <<>>

\* ---------------------------------------------------------------- C1
\* C1: two get requests of one Mirror for different keys, whose expose:res
\* messages have both been delivered (in either order), are both resolved,
\* each with the value of its own key.
C1_ConcurrentGets ==
    \A t1 \in Tokens, t2 \in Tokens :
        ( /\ t1 < t2
          /\ calls[t1].op = "get" /\ calls[t2].op = "get"
          /\ calls[t1].by = calls[t2].by
          /\ calls[t1].entry = calls[t2].entry
          /\ calls[t1].key # calls[t2].key
          /\ OwnerHolds(t1)
          /\ Delivered(t1) /\ Delivered(t2) )
        => /\ Resolved(t1) /\ calls[t1].result = OwnerValue(t1)
           /\ Resolved(t2) /\ calls[t2].result = OwnerValue(t2)

\* ---------------------------------------------------------------- C2
\* C2: a get on a Mirror for a key of kind value is answered once the owner
\* has handled the request, and is resolved with the owner's value once the
\* answer has been delivered, whatever the position of the object among the
\* owner's exposed objects.
C2_RoundTrip ==
    \A t \in Tokens :
        (calls[t].op = "get" /\ OwnerHolds(t)) =>
            /\ Handled(t) => Answered(t)
            /\ Delivered(t) => (Resolved(t) /\ calls[t].result = OwnerValue(t))

\* ---------------------------------------------------------------- C3
Records(catalog) == {catalog[i] : i \in 1..Len(catalog)}

MirrorRecords(e) ==
    {ExposedData(exposed[e][i]) :
        i \in {j \in 1..Len(exposed[e]) : exposed[e][j].secondary}}

\* C3: once both Buses have merged the peer's catalog, the records of each
\* Bus's Mirror entries are exactly the catalog its peer held when it sent it.
C3_HandshakeSymmetry ==
    BothMerged =>
        \A e \in Endpoints :
            /\ Len(sent[Peer(e)]) = 1
            /\ MirrorRecords(e) = Records(sent[Peer(e)][1])

C3_Witness ==
    /\ BothMerged
    /\ \A e \in Endpoints : Len(sent[e]) = 1 /\ sent[e][1] # <<>>

\* ---------------------------------------------------------------- C4
RegisterQueued(e, specifier) ==
    \E j \in 1..Len(chan[e]) :
        /\ chan[e][j].event = "expose:register"
        /\ chan[e][j].specifier = specifier

\* Entry i of e was exposed after e merged its peer's catalog.
ExposedAfterMerge(e, i) ==
    /\ ~exposed[e][i].secondary
    /\ \E j \in 1..(i - 1) : exposed[e][j].secondary

\* C4: when both Buses have completed the handshake, an object exposed
\* afterwards is, once its expose:register has been delivered, found by the
\* peer's getExposed as a Mirror entry.
C4_PostBindPublish ==
    \A e \in Endpoints : \A i \in 1..Len(exposed[e]) :
        ( /\ BothMerged
          /\ ExposedAfterMerge(e, i)
          /\ ~RegisterQueued(Peer(e), exposed[e][i].specifier)
          /\ \A j \in 1..Len(exposed[Peer(e)]) :
                exposed[Peer(e)][j].specifier = exposed[e][i].specifier
                    => exposed[Peer(e)][j].secondary )
        => getExposed(Peer(e), exposed[e][i].specifier) # 0

\* ---------------------------------------------------------------- C5
\* C5: a set on the Mirror of an interactable entry, for a key of kind
\* value, whose answer has been delivered is resolved with the value set,
\* and the owner's field holds that value once the request has been handled
\* (no other set having been issued).
C5_InteractableSet ==
    \A t \in Tokens :
        (calls[t].op = "set" /\ EntryOf(t).interactable /\ OwnerHolds(t)) =>
            /\ Delivered(t) => (Resolved(t) /\ calls[t].result = calls[t].value)
            /\ (Handled(t) /\ \A u \in 1..Len(calls) : calls[u].op = "set" => u = t)
                  => OwnerValue(t) = calls[t].value

\* ---------------------------------------------------------------- C6
\* The step appends a call of Exposed.set made by the application on a
\* Mirror entry that is not interactable.
RefusedSetStep ==
    /\ Len(calls') = Len(calls) + 1
    /\ calls'[Len(calls')].op = "set"
    /\ ~calls'[Len(calls')].trap
    /\ calls'[Len(calls')].fwd = 0
    /\ exposed[calls'[Len(calls')].by][calls'[Len(calls')].entry].secondary
    /\ ~exposed[calls'[Len(calls')].by][calls'[Len(calls')].entry].interactable

\* C6: set on the Mirror of an entry that is not interactable posts nothing,
\* registers no listener, leaves every object unchanged and returns a promise
\* resolved with undefined.
C6_RefusedSet ==
    [][RefusedSetStep =>
          /\ chan' = chan
          /\ exposed' = exposed
          /\ listeners' = listeners
          /\ calls'[Len(calls')].token = 0
          /\ calls'[Len(calls')].state = "resolved"
          /\ calls'[Len(calls')].result = Undefined]_vars

C6_Witness ==
    \E t \in 1..Len(calls) :
        /\ calls[t].op = "set" /\ ~calls[t].trap
        /\ EntryOf(t).secondary /\ ~EntryOf(t).interactable
        /\ BothMerged

\* ---------------------------------------------------------------- C7
InvocationsFor(t) ==
    {j \in 1..Len(invoked) :
        /\ invoked[j].for = t
        /\ invoked[j].at = Peer(calls[t].by)
        /\ invoked[j].key = calls[t].key
        /\ invoked[j].args = calls[t].args}

\* C7: a call on a Mirror for a key of kind function has invoked the
\* owner's function exactly once with its arguments once the owner has
\* handled the request, and is resolved with the returned value once the
\* answer has been delivered.
C7_CallForwarding ==
    \A t \in Tokens :
        (calls[t].op = "call" /\ OwnerHolds(t)) =>
            /\ Handled(t) => Cardinality(InvocationsFor(t)) = 1
            /\ Delivered(t) =>
                  /\ Resolved(t)
                  /\ calls[t].result = Num(calls[t].args[1] + calls[t].args[2])

\* ---------------------------------------------------------------- C8
\* C8: bounded is false initially and true only once the Bus has merged
\* its peer's catalog.
C8_BoundedAfterMerge ==
    \A e \in Endpoints : bounded[e] => merged[e] # <<>>

\* ---------------------------------------------------------------- C9
\* C9: a promise of confirm() is resolved only after the Bus has merged its
\* peer's catalog; and once bind has been called, the promise of the latest
\* confirm() on a Bus is eventually resolved unless a further confirm() is
\* made on that Bus, whether confirm() was called before or after the
\* exchange completed.
C9_ConfirmResolves ==
    /\ [](\A e \in Endpoints : \A i \in 1..Len(confirms[e]) :
            confirms[e][i] => merged[e] # <<>>)
    /\ \A e \in Endpoints : \A i \in 1..MaxConfirm :
          (port["B"] /\ Len(confirms[e]) = i)
              ~> /\ Len(confirms[e]) >= i
                 /\ (confirms[e][i] \/ Len(confirms[e]) > i)

\* On A the first confirm() was resolved by the merge and the second at
\* once; on B the only confirm() was resolved by the merge.
C9_Witness ==
    /\ confirms["A"] = <<TRUE, TRUE>>
    /\ confirms["B"] = <<TRUE>>
    /\ BothMerged

\* ---------------------------------------------------------------- C10
Holding(e, specifier) ==
    {i \in 1..Len(exposed[e]) : exposed[e][i].specifier = specifier}

\* C10: getExposed finds nothing exactly when no entry has the specifier,
\* and otherwise finds the entry registered first, which is the entry every
\* accessor operation of the application has been made on.
C10_GetExposedFirst ==
    /\ \A e \in Endpoints, s \in Specifiers :
          /\ getExposed(e, s) = 0 <=> Holding(e, s) = {}
          /\ Holding(e, s) # {} =>
                /\ getExposed(e, s) \in Holding(e, s)
                /\ \A j \in Holding(e, s) : getExposed(e, s) <= j
    /\ \A t \in 1..Len(calls) :
          calls[t].fwd = 0 =>
              \A j \in Holding(calls[t].by, EntryOf(t).specifier) : calls[t].entry <= j

C10_Witness ==
    \E t \in 1..Len(calls) :
        /\ Cardinality(Holding(calls[t].by, EntryOf(t).specifier)) >= 2
        /\ \E s \in Specifiers : getExposed(Peer(calls[t].by), s) = 0

\* ---------------------------------------------------------------- C13
\* The tokens of the expose:res listeners in e's #listeners.
ResListeners(e) ==
    {listeners[e][i].waiting :
        i \in {j \in 1..Len(listeners[e]) : listeners[e][j].event = "expose:res"}}

\* The requests of e for which no expose:res has been processed yet.
Unanswered(e) == {t \in Tokens : calls[t].by = e /\ ~Delivered(t)}

\* C13: in every reachable state the expose:res listeners an endpoint holds
\* are exactly those of its requests whose expose:res has not been
\* processed yet: processing the expose:res of a pending request removes
\* that request's listener.
C13_ResListenerRemoved ==
    \A e \in Endpoints : ResListeners(e) = Unanswered(e)

\* ---------------------------------------------------------------- C14
\* C14: after a catalog merge an endpoint's registry holds at most one
\* entry per specifier: a received item whose specifier the endpoint
\* already holds is skipped, not added as a second entry.
C14_MergeSkipsHeld ==
    \A e \in Endpoints :
        merged[e] # <<>> =>
            \A i \in 1..Len(exposed[e]), j \in 1..Len(exposed[e]) :
                (i < j /\ exposed[e][j].secondary) =>
                    exposed[e][i].specifier # exposed[e][j].specifier

\* ---------------------------------------------------------------- C15
\* The step in which e's handler is given a message of this event.
Handles(e, event) == Receives(e, event) /\ chan'[e] = Tail(chan[e])

\* The messages posted to the port of e's peer in the step.
PostedBy(e) ==
    SubSeq(chan'[Peer(e)], Len(chan[Peer(e)]) + 1, Len(chan'[Peer(e)]))

\* C15 as stated: the endpoint that receives bus:bind sends bus:bindSuccess
\* and, in the same step, bus:expose carrying its own catalog.
C15_AcceptorExposes ==
    [][\A e \in Endpoints :
          Handles(e, "bus:bind") =>
              PostedBy(e) = <<Msg("bus:bindSuccess"), CatalogMsg(e, "bus:expose")>>]_vars

\* C15 amended: the endpoint that receives bus:bind sends bus:bindSuccess
\* and nothing else in that step, and sends no catalog in it; it sends its
\* own catalog in bus:exposeSuccess, in the step in which it receives
\* bus:expose, and only the endpoint that receives bus:bindSuccess sends
\* bus:expose.
C15_AcceptorReplies ==
    [][\A e \in Endpoints :
          /\ Handles(e, "bus:bind") =>
                /\ PostedBy(e) = <<Msg("bus:bindSuccess")>>
                /\ sent'[e] = sent[e]
          /\ Handles(e, "bus:expose") =>
                /\ PostedBy(e) = <<CatalogMsg(e, "bus:exposeSuccess")>>
                /\ sent'[e] = Append(sent[e], Catalog(e))
          /\ (PostedBy(e) # <<>> /\ PostedBy(e)[1].event = "bus:expose") =>
                Handles(e, "bus:bindSuccess")]_vars

\* The acceptor A has answered bus:expose with its catalog of two entries
\* and B has merged it.
C15_Witness ==
    /\ Len(sent["A"]) = 1
    /\ Len(sent["A"][1]) = 2
    /\ merged["B"] = sent["A"]

\* ---------------------------------------------------------------- C16
\* No control message of the handshake is in flight.
HandshakeIdle ==
    \A e \in Endpoints : \A j \in 1..Len(chan[e]) :
        chan[e][j].event \notin
            {"bus:bind", "bus:bindSuccess", "bus:expose", "bus:exposeSuccess"}

\* C16: in one handshake no endpoint sends its catalog more than once or
\* merges more than one catalog; whenever bind has been called and no
\* control message is in flight each endpoint has sent its catalog exactly
\* once and has merged exactly once, the catalog its peer sent; and after
\* bind the handshake does reach that state.
C16_CatalogOnce ==
    /\ [](\A e \in Endpoints :
            /\ Len(sent[e]) <= 1
            /\ Len(merged[e]) <= 1
            /\ (port["B"] /\ HandshakeIdle) =>
                  /\ Len(sent[e]) = 1
                  /\ merged[e] = sent[Peer(e)])
    /\ port["B"] ~> (HandshakeIdle /\ BothMerged)

\* The handshake is over and both catalogs were non-empty.
C16_Witness ==
    /\ port["B"] /\ HandshakeIdle
    /\ \A e \in Endpoints : Len(merged[e]) = 1 /\ Len(merged[e][1]) = 1

\* ---------------------------------------------------------------- C11
\* The callbacks e's handler runs in the step, in order.
RunsIn(e) == SubSeq(runs'[e], Len(runs[e]) + 1, Len(runs'[e]))

\* C11: when a user event is delivered to an endpoint, every callback that
\* was registered there with on() for its name before the delivery is
\* invoked exactly once, with the event's data.
C11_EveryHandler ==
    [][\A e \in Endpoints, name \in Names :
          Handles(e, UserEvent(name)) =>
              \A j \in 1..Len(listeners[e]) :
                  (listeners[e][j].event = UserEvent(name) /\ ~listeners[e][j].once) =>
                      Cardinality({k \in 1..Len(RunsIn(e)) :
                          RunsIn(e)[k] = [cb |-> listeners[e][j].cb,
                                          data |-> Front(e).value]}) = 1]_vars

\* ---------------------------------------------------------------- C12
\* How often the callback numbered h has run at e.
TimesRun(e, h) == Cardinality({k \in 1..Len(runs[e]) : runs[e][k].cb = h})

\* C12: a callback registered with once() has run at most once, and when it
\* has run its listener is not in the registry; in the step in which it
\* runs, its listener is removed and every other listener stays, in order.
C12_OnceAtMostOnce ==
    /\ [](\A e \in Endpoints : \A h \in 1..Len(handlers[e]) :
            handlers[e][h].once =>
                /\ TimesRun(e, h) <= 1
                /\ TimesRun(e, h) = 1 =>
                      \A j \in 1..Len(listeners[e]) : listeners[e][j].cb # h)
    /\ [][\A e \in Endpoints : \A h \in 1..Len(handlers[e]) :
            (handlers[e][h].once /\ Len(RunsIn(e)) > 0 /\ RunsIn(e)[1].cb = h) =>
                listeners'[e] = SelectSeq(listeners[e], LAMBDA l : l.cb # h)]_vars

\* B registered once('n1') and then on('n1'); the first event ran the
\* once() callback, the second ran the on() callback.
C12_Witness ==
    /\ handlers["B"] = <<[name |-> "n1", once |-> TRUE], [name |-> "n1", once |-> FALSE]>>
    /\ runs["B"] = <<[cb |-> 1, data |-> Num(1)], [cb |-> 2, data |-> Num(2)]>>

\* ---------------------------------------------------------------- C17
Pending(t) == t \in Tokens /\ calls[t].state = "pending"

\* C17: a pending request becomes resolved only in a step in which its
\* issuer processes an expose:res carrying the request's own token, and the
\* promise of bus.emit is then resolved with that response's res; a
\* resolved request never changes again; and a step that processes an
\* expose:res whose token is that of no pending request of the receiver
\* changes no promise, no registry entry and no object.
C17_ResolvedByOwnToken ==
    [][/\ \A t \in Tokens :
            /\ (Pending(t) /\ calls'[t].state = "resolved") =>
                  /\ Handles(calls[t].by, "expose:res")
                  /\ Front(calls[t].by).waiting = t
                  /\ calls'[t].res = Front(calls[t].by).res
            /\ calls[t].state = "resolved" => calls'[t] = calls[t]
       /\ \A e \in Endpoints :
            ( /\ Handles(e, "expose:res")
              /\ ~\E t \in Tokens :
                    Pending(t) /\ calls[t].by = e /\ t = Front(e).waiting ) =>
                /\ calls' = calls
                /\ exposed' = exposed]_vars

\* A request of B was resolved by its own response, and B was also given
\* the response that carries no request's token.
C17_Witness ==
    /\ \E t \in Tokens :
          /\ calls[t].by = "B"
          /\ Resolved(t)
          /\ calls[t].res = Num(5)
    /\ \E j \in 1..Len(received["B"]) : received["B"][j].waiting = -2
    /\ \E i \in 1..Len(exposed["A"]) : ~exposed["A"][i].secondary

\* ---------------------------------------------------------------- C18
\* The expose:res messages with token t on their way to e or given to it.
ResponseCount(e, t) ==
    Cardinality({j \in 1..Len(chan[e]) :
                    chan[e][j].event = "expose:res" /\ chan[e][j].waiting = t})
    + Cardinality({j \in 1..Len(received[e]) : received[e][j].waiting = t})
    + Cardinality({r \in running[Peer(e)] : r.waiting = t})

\* e's handler is given a request with token t that names an entry e holds.
ServesRequest(e, t) ==
    /\ \E event \in Requests : Handles(e, event)
    /\ Front(e).waiting = t
    /\ getExposed(e, Front(e).specifier) # 0

\* C18: every expose:res an endpoint posts, and every response it starts to
\* prepare, comes from a step in which its handler is given an expose:get,
\* expose:set or expose:call that names an entry it holds, and carries that
\* request's token; and no request has more than one response, whatever
\* the number of entries in the registry.
C18_ResponseOnlyToRequest ==
    /\ [](\A t \in Tokens : ResponseCount(calls[t].by, t) <= 1)
    /\ [][\A e \in Endpoints :
            /\ \A k \in 1..Len(PostedBy(e)) :
                  (PostedBy(e)[k].event = "expose:res" /\ PostedBy(e)[k].waiting # -2) =>
                      \/ ServesRequest(e, PostedBy(e)[k].waiting)
                      \/ \E r \in running[e] \ running'[e] :
                            r.waiting = PostedBy(e)[k].waiting
            /\ \A r \in running'[e] \ running[e] :
                  r.waiting # 0 => ServesRequest(e, r.waiting)]_vars

\* A request was answered by an endpoint that holds two entries with the
\* request's specifier, and the response was delivered.
C18_Witness ==
    \E t \in Tokens :
        /\ Delivered(t)
        /\ Cardinality(Holding(Peer(calls[t].by), EntryOf(t).specifier)) >= 2

\* ---------------------------------------------------------------- C19
\* e's handler is given a request whose specifier none of its entries has.
ServesUnknown(e) ==
    /\ \E event \in Requests : Handles(e, event)
    /\ getExposed(e, Front(e).specifier) = 0

\* C19: the step in which an endpoint is given an expose:get, expose:set or
\* expose:call whose specifier matches none of its entries posts nothing
\* and changes no entry, object, listener, promise or suspended handler;
\* and no expose:res carrying the token of such a request ever exists, so
\* nothing can resolve the request.
C19_UnknownSpecifier ==
    /\ [][\A e \in Endpoints :
            ServesUnknown(e) =>
                /\ PostedBy(e) = <<>>
                /\ exposed' = exposed
                /\ listeners' = listeners
                /\ calls' = calls
                /\ running' = running
                /\ invoked' = invoked]_vars
    /\ [](\A e \in Endpoints : ResponseCount(e, -1) = 0)

\* Both Buses hold entries, and a request for a specifier that none of
\* them has was posted and has been taken by the handler.
C19_Witness ==
    /\ injected = 1
    /\ \A e \in Endpoints :
          /\ chan[e] = <<>>
          /\ Len(exposed[e]) = 2
          /\ \A j \in 1..Len(received[e]) : received[e][j].waiting # -2

\* ---------------------------------------------------------------- C20
\* The keys in the key catalog of entry x.
Listed(x) == {x.keys[j].k : j \in 1..Len(x.keys)}

\* The application's operation made in the step, when there is one: the
\* promise added to calls.
Made == calls'[Len(calls) + 1]

====
